---- MODULE Spec2Model ----
(***************************************************************************)
(* A model of firemarks.py: list the bookmarks of a Firefox bookmarks      *)
(* folder as org-mode links.                                               *)
(*                                                                         *)
(* Text whose characters matter (urls, titles, folder names, filter        *)
(* patterns, standard output, the clipboard helper's input) is a sequence  *)
(* of characters; a character is a one-character string, or the name of a *)
(* code point ("U+0301").  Text that the program only compares as a whole  *)
(* (style names, ini values, exception names) is a TLA+ string.            *)
(***************************************************************************)
EXTENDS Integers, Sequences, FiniteSets, TLC

\* Bounds of the model.
MaxRows == 3
MaxSections == 2

\* Python's None for a value that is otherwise text: a one-element tuple that
\* is no text of the model (its element is not a character).
None == <<"None">>

NoException == "none"

(***************************************************************************)
(* Text fixtures.                                                          *)
(***************************************************************************)
toolbar == <<"t", "o", "o", "l", "b", "a", "r">>
QuoteName == <<"'">>
QuotedQuoteName == <<"'", "'">>
OtherName == <<"x">>

UrlA == <<"h", "a">>
UrlB == <<"h", "b">>
TitleDecomposed == <<"c", "e", "U+0301">>
TitleUpper == <<"A">>

Urls == {UrlA, UrlB}
Titles == {TitleDecomposed, TitleUpper}
FolderTitles == {toolbar, QuoteName}
FolderArgs == {toolbar, QuoteName, QuotedQuoteName, OtherName}
Patterns == {<<>>, <<"b">>, <<"U+00E9">>, <<"E">>, <<".">>, <<"(">>}
Styles == {"unified", "split", "plain", "weird"}

(***************************************************************************)
(* unicodedata.normalize("NFC", s) on the model's characters: a combining  *)
(* acute accent composes with the starter before it when Unicode has the   *)
(* precomposed character; every other character is kept.                   *)
(***************************************************************************)
Composition ==
    [base \in {"e", "E", "a", "A", "c"} |->
        CASE base = "e" -> "U+00E9"
          [] base = "E" -> "U+00C9"
          [] base = "a" -> "U+00E1"
          [] base = "A" -> "U+00C1"
          [] base = "c" -> "U+0107"]

RECURSIVE NFC(_)
NFC(s) ==
    IF s = <<>> THEN <<>>
    ELSE LET head == NFC(SubSeq(s, 1, Len(s) - 1))
             c == s[Len(s)]
         IN IF /\ c = "U+0301"
               /\ head # <<>>
               /\ head[Len(head)] \in DOMAIN Composition
            THEN [head EXCEPT ![Len(head)] = Composition[@]]
            ELSE Append(head, c)

(***************************************************************************)
(* re.search(pattern, t, re.IGNORECASE) on the model's patterns: literal   *)
(* characters, "." and "(".  The pattern alphabet has no ")", so a pattern *)
(* holding "(" does not compile ("missing ), unterminated subpattern").    *)
(***************************************************************************)
\* A re_error that lets every pattern compile.
re_error_never(pattern) == FALSE

re_error(pattern) == \E k \in 1..Len(pattern) : pattern[k] = "("

Lower(c) ==
    CASE c = "A" -> "a"
      [] c = "E" -> "e"
      [] c = "U+00C9" -> "U+00E9"
      [] c = "U+00C1" -> "U+00E1"
      [] OTHER -> c

CharMatches(p, c) ==
    IF p = "." THEN c # "\n" ELSE Lower(p) = Lower(c)

re_search(pattern, t) ==
    \E s \in 0..(Len(t) - Len(pattern)) :
        \A k \in 1..Len(pattern) : CharMatches(pattern[k], t[s + k])

(***************************************************************************)
(* Bookmark                                                                *)
(***************************************************************************)
Bookmark(url, title) == [url |-> url, title |-> title]

\* A normtitle that returns the title as stored.
normtitle_raw(self) == self.title

normtitle(self) == NFC(self.title)

\* A to_org that renders an unrecognized style as unified.
to_org_defaulting(self, style) ==
    IF style \in {"plain", "p"}
    THEN [raised |-> NoException, text |-> self.url]
    ELSE IF style \in {"split", "s"}
    THEN [raised |-> NoException,
          text |-> <<"*", " ">> \o normtitle(self)
                   \o <<"\n", " ", " ", "[", "[">> \o self.url \o <<"]", "]">>]
    ELSE [raised |-> NoException,
          text |-> <<"-", " ", "[", "[">> \o self.url \o <<"]", "[">>
                   \o normtitle(self) \o <<"]", "]">>]

\* Bookmark.to_org: the text, or the exception raised.
to_org(self, style) ==
    IF style \in {"plain", "p"}
    THEN [raised |-> NoException, text |-> self.url]
    ELSE IF style \in {"split", "s"}
    THEN [raised |-> NoException,
          text |-> <<"*", " ">> \o normtitle(self) \o <<"\n", " ", " ", "[", "[">>
                   \o self.url \o <<"]", "]">>]
    ELSE IF style \in {"unified", "u"}
    THEN [raised |-> NoException,
          text |-> <<"-", " ", "[", "[">> \o self.url \o <<"]", "[">>
                   \o normtitle(self) \o <<"]", "]">>]
    ELSE [raised |-> "ValueError", text |-> <<>>]

\* Bookmark.matches for a pattern that compiles: any() over url, then title.
matches(self, pattern) ==
    \/ re_search(pattern, self.url)
    \/ re_search(pattern, self.title)

(***************************************************************************)
(* read_cli_arguments                                                      *)
(***************************************************************************)
default_args ==
    [clipboard |-> FALSE, style |-> "unified", filter |-> None, folder |-> toolbar]

\* A mapping that may or may not define key k.
Optional(k, values) == {<<>>} \cup {k :> v : v \in values}

\* The command line: the flags that were supplied, with their values.
Argvs ==
    {c @@ s @@ d @@ f :
        c \in Optional("clipboard", {TRUE}),
        s \in Optional("style", Styles \ {"unified"}),
        d \in Optional("folder", FolderArgs \ {toolbar}),
        f \in Optional("filter", Patterns)}

FewArgvs ==
    {c @@ s @@ f :
        c \in Optional("clipboard", {TRUE}),
        s \in Optional("style", {"weird"}),
        f \in Optional("filter", {<<"(">>})}

\* ~/.firemarks.yaml: missing, an empty document (yaml.safe_load gives None)
\* or a mapping.
ConfigFile(kind, mapping) == [kind |-> kind, mapping |-> mapping]

ConfigMappings ==
    {c @@ s @@ d @@ f @@ x :
        c \in Optional("clipboard", BOOLEAN),
        s \in Optional("style", {"unified", "split", "weird"}),
        d \in Optional("folder", {QuoteName, OtherName}),
        f \in Optional("filter", {<<"E">>, <<"(">>}),
        x \in Optional("split", {TRUE})}

ConfigFiles ==
    {ConfigFile("missing", <<>>), ConfigFile("empty", <<>>)}
        \cup {ConfigFile("mapping", m) : m \in ConfigMappings}

FewConfigFiles ==
    {ConfigFile("missing", <<>>), ConfigFile("empty", <<>>),
     ConfigFile("mapping", "split" :> TRUE)}

\* {**default_args, **config_file_args}: the later mapping wins.
set_defaults(config_file_args) == config_file_args @@ default_args

\* parser.parse_args(): a supplied flag replaces the default of its key.
parse_args(argv_, defaults) == argv_ @@ defaults

(***************************************************************************)
(* get_default_moz_profile                                                 *)
(***************************************************************************)
ProfilePaths == {<<"p", "1">>, <<"p", "2">>}

Sections ==
    {("Name" :> n) @@ ("path" :> p) :
        n \in {"default-release", "default"}, p \in ProfilePaths}
        \cup {"path" :> <<"p", "1">>, "Name" :> "default-release"}

ProfilesIni(readable, sections) == [readable |-> readable, sections |-> sections]

ProfilesInis ==
    {ProfilesIni(FALSE, <<>>)}
        \cup {ProfilesIni(TRUE, s) :
                s \in UNION {[1..n -> Sections] : n \in 0..MaxSections}}

FewProfilesInis ==
    {ProfilesIni(FALSE, <<>>),
     ProfilesIni(TRUE, <<("Name" :> "default-release") @@ ("path" :> <<"p", "1">>)>>)}

\* config_parser.read skips a file it cannot open.
config_parser_read(ini) == IF ini.readable THEN ini.sections ELSE <<>>

IsDefaultRelease(section) ==
    "Name" \in DOMAIN section /\ section["Name"] = "default-release"

\* A loop that keeps the last section named default-release.
get_default_moz_profile_last(ini) ==
    LET sections == config_parser_read(ini)
        hits == {k \in 1..Len(sections) : IsDefaultRelease(sections[k])}
    IN IF hits = {}
       THEN [raised |-> NoException, value |-> None]
       ELSE LET last == CHOOSE k \in hits : \A j \in hits : k >= j
            IN IF "path" \in DOMAIN sections[last]
               THEN [raised |-> NoException, value |-> sections[last]["path"]]
               ELSE [raised |-> "KeyError", value |-> None]

\* The loop of get_default_moz_profile: the value returned, or the exception.
get_default_moz_profile(ini) ==
    LET sections == config_parser_read(ini)
        hits == {k \in 1..Len(sections) : IsDefaultRelease(sections[k])}
    IN IF hits = {}
       THEN [raised |-> NoException, value |-> None]
       ELSE LET first == CHOOSE k \in hits : \A j \in hits : k <= j
            IN IF "path" \in DOMAIN sections[first]
               THEN [raised |-> NoException, value |-> sections[first]["path"]]
               ELSE [raised |-> "KeyError", value |-> None]

(***************************************************************************)
(* places.sqlite                                                           *)
(***************************************************************************)
NULL == 0

\* A row of moz_bookmarks; its id is its place in the table (the rowid).
\* position is its place among the children of its parent and lastModified
\* the time of its last change, as Firefox keeps them.
Row(title, parent, position, lastModified, fk) ==
    [title |-> title, parent |-> parent, position |-> position,
     lastModified |-> lastModified, fk |-> fk]

Positions == {0, 1}

\* Folders; children of the row with id 1 at either position; a child of that
\* row which shares its place with another and was changed later; a child of
\* the row with id 2; and a child whose place does not exist.
RowShapes ==
    {Row(t, 0, 0, 0, NULL) : t \in FolderTitles}
        \cup {Row(TitleDecomposed, 1, p, 0, 1) : p \in Positions}
        \cup {Row(TitleUpper, 1, 0, 0, 2), Row(TitleUpper, 1, 0, 1, 1),
              Row(TitleUpper, 2, 0, 0, 1), Row(TitleUpper, 1, 0, 0, 3)}

moz_places_rows == <<[id |-> 1, url |-> UrlA], [id |-> 2, url |-> UrlB]>>

\* Two indexes of Firefox's schema: on moz_bookmarks (parent, position) and on
\* moz_bookmarks (fk, lastModified).
moz_bookmarks_parentindex == "moz_bookmarks_parentindex"
moz_bookmarks_itemlastmodifiedindex == "moz_bookmarks_itemlastmodifiedindex"

\* A places.sqlite: whether the file exists, its tables, its indexes, whether
\* it carries the planner's statistics (the table sqlite_stat1, left by
\* ANALYZE), and its rows.
Database(exists, tables, indexes, sqlite_stat1, rows) ==
    [exists |-> exists, tables |-> tables, indexes |-> indexes,
     sqlite_stat1 |-> sqlite_stat1,
     moz_bookmarks |-> rows, moz_places |-> moz_places_rows]

AllTables == {"moz_bookmarks", "moz_places"}

\* A database without indexes, one with the index on (parent, position), and
\* one with both indexes and statistics.
Schemas ==
    {[indexes |-> {}, sqlite_stat1 |-> FALSE],
     [indexes |-> {moz_bookmarks_parentindex}, sqlite_stat1 |-> FALSE],
     [indexes |-> {moz_bookmarks_parentindex,
                   moz_bookmarks_itemlastmodifiedindex},
      sqlite_stat1 |-> TRUE]}

Databases ==
    {Database(FALSE, {}, {}, FALSE, <<>>), Database(TRUE, {}, {}, FALSE, <<>>),
     Database(TRUE, {"moz_bookmarks"}, {}, FALSE, <<Row(toolbar, 0, 0, 0, NULL)>>)}
        \cup {Database(TRUE, AllTables, schema.indexes, schema.sqlite_stat1, rows) :
                schema \in Schemas,
                rows \in UNION {[1..n -> RowShapes] : n \in 0..MaxRows}}

FewDatabases ==
    {Database(FALSE, {}, {}, FALSE, <<>>), Database(TRUE, {}, {}, FALSE, <<>>),
     Database(TRUE, {"moz_bookmarks"}, {}, FALSE, <<Row(toolbar, 0, 0, 0, NULL)>>),
     Database(TRUE, AllTables, {}, FALSE, <<>>),
     Database(TRUE, AllTables, {moz_bookmarks_parentindex}, FALSE,
              <<Row(toolbar, 0, 0, 0, NULL)>>),
     Database(TRUE, AllTables, {moz_bookmarks_parentindex}, TRUE,
              <<Row(toolbar, 0, 0, 0, NULL), Row(TitleUpper, 1, 0, 0, 2)>>)}

\* The string literal of f"... WHERE title='{title}'": text is the folder name
\* followed by the closing quote.  Two quotes in a row are one quote of the
\* literal; a single quote ends it.  What follows the end of the literal is
\* further SQL, which no text over the model's characters completes to a
\* statement, and a literal that never ends is no token: both are an
\* OperationalError.
RECURSIVE sql_literal(_, _, _)
sql_literal(text, i, acc) ==
    IF i > Len(text) THEN [error |-> TRUE, value |-> <<>>]
    ELSE IF text[i] # "'" THEN sql_literal(text, i + 1, Append(acc, text[i]))
    ELSE IF i < Len(text) /\ text[i + 1] = "'"
    THEN sql_literal(text, i + 2, Append(acc, "'"))
    ELSE IF i = Len(text) THEN [error |-> FALSE, value |-> acc]
    ELSE [error |-> TRUE, value |-> <<>>]

\* SELECT id FROM moz_bookmarks WHERE title='{title}': the ids, in rowid order.
select_id(database, title) ==
    LET literal == sql_literal(title \o <<"'">>, 1, <<>>)
        rows == database.moz_bookmarks
    IN IF "moz_bookmarks" \notin database.tables \/ literal.error
       THEN [raised |-> "OperationalError", rows |-> <<>>]
       ELSE [raised |-> NoException,
             rows |-> SelectSeq([k \in 1..Len(rows) |-> k],
                                LAMBDA k : rows[k].title = literal.value)]

\* A plan of SQLite's query planner for the join of the second SELECT: the
\* table of the outer loop, and how the rows of moz_bookmarks are reached,
\* by a walk of the table ("SCAN") or through one of its indexes.
Plan(outer, access) == [outer |-> outer, access |-> access]

\* The plans the planner can choose on a database.  Without statistics
\* moz_bookmarks is the outer loop, reached through the index on parent where
\* the schema has it and by a walk of the table otherwise.  With statistics
\* the choice rests on the row counts recorded in sqlite_stat1, which need not
\* be those of the present rows: either table can be the outer loop, and
\* moz_bookmarks is reached by a walk or through any index that serves the
\* loop (the index on parent in either loop, the index on fk only below
\* moz_places).
query_plans(database) ==
    LET parent_access == {"SCAN"} \cup
            (database.indexes \cap {moz_bookmarks_parentindex})
        fk_access == parent_access \cup
            (database.indexes \cap {moz_bookmarks_itemlastmodifiedindex})
    IN IF database.sqlite_stat1
       THEN {Plan("moz_bookmarks", access) : access \in parent_access}
                \cup {Plan("moz_places", access) : access \in fk_access}
       ELSE IF moz_bookmarks_parentindex \in database.indexes
            THEN {Plan("moz_bookmarks", moz_bookmarks_parentindex)}
            ELSE {Plan("moz_bookmarks", "SCAN")}

\* The rows of moz_bookmarks the join emits for the given parent, in the
\* order in which the plan reaches them.  The query has no ORDER BY, so this
\* is the order of the result.  With moz_places as the outer loop the rows
\* come place by place, in the order of the ids of moz_places.  Within the
\* loop a walk of the table yields the rows by rowid, the index on (parent,
\* position) by position and the index on (fk, lastModified) by lastModified;
\* rows equal in the indexed column come by rowid.
scan_order(database, parent, plan) ==
    LET rows == database.moz_bookmarks
        places == database.moz_places
        emitted == {k \in 1..Len(rows) :
                        /\ rows[k].parent = parent
                        /\ \E p \in 1..Len(places) : places[p].id = rows[k].fk}
        outer(k) == IF plan.outer = "moz_places" THEN rows[k].fk ELSE 0
        column(k) ==
            CASE plan.access = moz_bookmarks_parentindex -> rows[k].position
              [] plan.access = moz_bookmarks_itemlastmodifiedindex ->
                    rows[k].lastModified
              [] OTHER -> 0
        before(i, k) ==
            \/ outer(i) < outer(k)
            \/ outer(i) = outer(k) /\ column(i) < column(k)
            \/ outer(i) = outer(k) /\ column(i) = column(k) /\ i <= k
    IN [j \in 1..Cardinality(emitted) |->
          CHOOSE k \in emitted :
              Cardinality({i \in emitted : before(i, k)}) = j]

\* SELECT url, title FROM moz_places INNER JOIN moz_bookmarks ON id=fk WHERE
\* parent=toolbar_id, run under the given plan: one Bookmark for each child of
\* the folder that has a place, in the order of the plan.
select_url_title(database, parent, plan) ==
    LET rows == database.moz_bookmarks
        places == database.moz_places
        kept == scan_order(database, parent, plan)
    IN IF "moz_places" \notin database.tables
       THEN [raised |-> "OperationalError", rows |-> <<>>]
       ELSE [raised |-> NoException,
             rows |-> [j \in 1..Len(kept) |->
                         Bookmark(places[CHOOSE p \in 1..Len(places) :
                                            places[p].id = rows[kept[j]].fk].url,
                                  rows[kept[j]].title)]]

\* A cleanup that runs only when the block returns.
TemporaryDirectoryExit_leaky(raised) ==
    [tempdir |-> raised, db_temp_path |-> raised]

\* tempfile.TemporaryDirectory.__exit__: the scratch directory and all it
\* holds are removed, whether the block returned or raised.
TemporaryDirectoryExit(raised) == [tempdir |-> FALSE, db_temp_path |-> FALSE]

(***************************************************************************)
(* The run of main.                                                        *)
(***************************************************************************)
VARIABLES
    pc,                 \* the step main is about to take
    argv,               \* the flags on the command line
    config_file,        \* ~/.firemarks.yaml
    args,               \* the Namespace read_cli_arguments returned
    profiles_ini,       \* ~/.mozilla/firefox/profiles.ini
    profile,            \* what get_default_moz_profile returned
    database,           \* the places.sqlite at db_path
    tempdir,            \* the scratch directory exists
    db_temp_path,       \* the copy of the database exists in it
    toolbar_id,
    queries,            \* the SQL statements executed so far
    bookmarks,
    bookmarks_filtered,
    printed,            \* how many bookmarks the loop of main has printed
    stdout,             \* the characters written to standard output
    xclip_input,        \* the input of each xclip process that was started
    exc,                \* the exception that ended the run
    raised_in,          \* the step that raised it
    exit_code

vars ==
    <<pc, argv, config_file, args, profiles_ini, profile, database, tempdir,
      db_temp_path, toolbar_id, queries, bookmarks, bookmarks_filtered,
      printed, stdout, xclip_input, exc, raised_in, exit_code>>

Running == -1

Init ==
    /\ pc = "read_cli_arguments"
    /\ argv = <<>>
    /\ config_file = ConfigFile("missing", <<>>)
    /\ args = <<>>
    /\ profiles_ini = ProfilesIni(FALSE, <<>>)
    /\ profile = None
    /\ database = Database(FALSE, {}, {}, FALSE, <<>>)
    /\ tempdir = FALSE
    /\ db_temp_path = FALSE
    /\ toolbar_id = NULL
    /\ queries = <<>>
    /\ bookmarks = <<>>
    /\ bookmarks_filtered = <<>>
    /\ printed = 0
    /\ stdout = <<>>
    /\ xclip_input = <<>>
    /\ exc = NoException
    /\ raised_in = "none"
    /\ exit_code = Running

\* An exception nothing catches: the interpreter prints the traceback and
\* exits with status 1.
Raise(exception, step) ==
    /\ exc' = exception
    /\ raised_in' = step
    /\ pc' = "aborted"
    /\ exit_code' = 1

NoRaise == UNCHANGED <<exc, raised_in, exit_code>>

\* args = read_cli_arguments()
ReadCliArguments(argvs, config_files) ==
    /\ pc = "read_cli_arguments"
    /\ \E a \in argvs, c \in config_files :
        /\ argv' = a
        /\ config_file' = c
        /\ IF c.kind = "empty"
           THEN Raise("TypeError", "read_cli_arguments") /\ UNCHANGED args
           ELSE /\ args' = parse_args(a, set_defaults(c.mapping))
                /\ pc' = "get_default_moz_profile"
                /\ NoRaise
    /\ UNCHANGED <<profiles_ini, profile, database, tempdir, db_temp_path,
                   toolbar_id, queries, bookmarks, bookmarks_filtered, printed,
                   stdout, xclip_input>>

\* db_path = pathlib.Path.home().joinpath(..., get_default_moz_profile(), ...)
GetDefaultMozProfile(inis) ==
    /\ pc = "get_default_moz_profile"
    /\ \E ini \in inis :
        LET found == get_default_moz_profile(ini)
        IN /\ profiles_ini' = ini
           /\ profile' = found.value
           /\ IF found.raised # NoException
              THEN Raise(found.raised, "get_default_moz_profile")
              ELSE IF found.value = None
              THEN Raise("TypeError", "get_default_moz_profile")
              ELSE pc' = "TemporaryDirectory" /\ NoRaise
    /\ UNCHANGED <<argv, config_file, args, database, tempdir, db_temp_path,
                   toolbar_id, queries, bookmarks, bookmarks_filtered, printed,
                   stdout, xclip_input>>

\* with tempfile.TemporaryDirectory() as tempdir:
EnterTemporaryDirectory ==
    /\ pc = "TemporaryDirectory"
    /\ tempdir' = TRUE
    /\ pc' = "copy2"
    /\ NoRaise
    /\ UNCHANGED <<argv, config_file, args, profiles_ini, profile, database,
                   db_temp_path, toolbar_id, queries, bookmarks,
                   bookmarks_filtered, printed, stdout, xclip_input>>

\* shutil.copy2(db_path, db_temp_path)
CopyDatabase(databases) ==
    /\ pc = "copy2"
    /\ \E d \in databases :
        /\ database' = d
        /\ IF d.exists
           THEN /\ db_temp_path' = TRUE
                /\ UNCHANGED tempdir
                /\ pc' = "select_id"
                /\ NoRaise
           ELSE /\ db_temp_path' = TemporaryDirectoryExit(TRUE).db_temp_path
                /\ tempdir' = TemporaryDirectoryExit(TRUE).tempdir
                /\ Raise("FileNotFoundError", "copy2")
    /\ UNCHANGED <<argv, config_file, args, profiles_ini, profile, toolbar_id,
                   queries, bookmarks, bookmarks_filtered, printed, stdout,
                   xclip_input>>

\* db = sqlite3.connect(...); the first SELECT; toolbar_id = list(cursor)[0][0]
SelectFolder ==
    /\ pc = "select_id"
    /\ LET result == select_id(database, args.folder)
       IN /\ queries' = Append(queries, "SELECT id")
          /\ IF result.raised # NoException \/ result.rows = <<>>
             THEN /\ Raise(IF result.raised # NoException
                           THEN result.raised ELSE "IndexError", "select_id")
                  /\ db_temp_path' = TemporaryDirectoryExit(TRUE).db_temp_path
                  /\ tempdir' = TemporaryDirectoryExit(TRUE).tempdir
                  /\ UNCHANGED toolbar_id
             ELSE /\ toolbar_id' = result.rows[1]
                  /\ pc' = "select_url_title"
                  /\ NoRaise
                  /\ UNCHANGED <<tempdir, db_temp_path>>
    /\ UNCHANGED <<argv, config_file, args, profiles_ini, profile, database,
                   bookmarks, bookmarks_filtered, printed, stdout, xclip_input>>

\* The second SELECT, run under the plan the query planner chooses, and the
\* return of get_toolbar_bookmarks.
SelectBookmarks ==
    /\ pc = "select_url_title"
    /\ \E plan \in query_plans(database) :
       LET result == select_url_title(database, toolbar_id, plan)
           raised == result.raised # NoException
       IN /\ queries' = Append(queries, "SELECT url, title")
          /\ db_temp_path' = TemporaryDirectoryExit(raised).db_temp_path
          /\ tempdir' = TemporaryDirectoryExit(raised).tempdir
          /\ IF raised
             THEN Raise(result.raised, "select_url_title") /\ UNCHANGED bookmarks
             ELSE /\ bookmarks' = result.rows
                  /\ pc' = "filter"
                  /\ NoRaise
    /\ UNCHANGED <<argv, config_file, args, profiles_ini, profile, database,
                   toolbar_id, bookmarks_filtered, printed, stdout, xclip_input>>

\* bookmarks_filtered = list(filter(...) if args.filter is not None else ...)
\* The pattern is compiled by the first re.search, so only when there is a
\* bookmark to test.
Filter ==
    /\ pc = "filter"
    /\ IF args.filter # None /\ bookmarks # <<>> /\ re_error(args.filter)
       THEN Raise("re.error", "filter") /\ UNCHANGED <<bookmarks_filtered, printed>>
       ELSE /\ bookmarks_filtered' =
                    IF args.filter # None
                    THEN SelectSeq(bookmarks, LAMBDA bm : matches(bm, args.filter))
                    ELSE bookmarks
            /\ printed' = 0
            /\ pc' = "print"
            /\ NoRaise
    /\ UNCHANGED <<argv, config_file, args, profiles_ini, profile, database,
                   tempdir, db_temp_path, toolbar_id, queries, bookmarks,
                   stdout, xclip_input>>

\* One turn of: for bookmark in bookmarks_filtered: print(bookmark.to_org(...))
PrintBookmark ==
    /\ pc = "print"
    /\ printed < Len(bookmarks_filtered)
    /\ LET block == to_org(bookmarks_filtered[printed + 1], args.style)
       IN IF block.raised # NoException
          THEN Raise(block.raised, "print") /\ UNCHANGED <<printed, stdout>>
          ELSE /\ stdout' = stdout \o block.text \o <<"\n">>
               /\ printed' = printed + 1
               /\ UNCHANGED pc
               /\ NoRaise
    /\ UNCHANGED <<argv, config_file, args, profiles_ini, profile, database,
                   tempdir, db_temp_path, toolbar_id, queries, bookmarks,
                   bookmarks_filtered, xclip_input>>

\* The end of the loop with args.clipboard false: main returns.
Return ==
    /\ pc = "print"
    /\ printed = Len(bookmarks_filtered)
    /\ ~args.clipboard
    /\ pc' = "done"
    /\ exit_code' = 0
    /\ UNCHANGED <<argv, config_file, args, profiles_ini, profile, database,
                   tempdir, db_temp_path, toolbar_id, queries, bookmarks,
                   bookmarks_filtered, printed, stdout, xclip_input, exc,
                   raised_in>>

\* The outcomes of subprocess.run(["xclip", ...], check=True, input=...).
XclipOutcomes == {"exit 0", "exit 1", "not found"}

\* if args.clipboard: run_xclip(bookmarks_filtered, args.split)
\* args.split is read first; the input is joined before the process starts,
\* and to_org takes no keyword split.
RunXclip ==
    /\ pc = "print"
    /\ printed = Len(bookmarks_filtered)
    /\ args.clipboard
    /\ IF "split" \notin DOMAIN args
       THEN Raise("AttributeError", "run_xclip") /\ UNCHANGED xclip_input
       ELSE IF bookmarks_filtered # <<>>
       THEN Raise("TypeError", "run_xclip") /\ UNCHANGED xclip_input
       ELSE \E outcome \in XclipOutcomes :
            CASE outcome = "not found" ->
                    Raise("FileNotFoundError", "run_xclip") /\ UNCHANGED xclip_input
              [] outcome = "exit 1" ->
                    /\ xclip_input' = Append(xclip_input, <<>>)
                    /\ Raise("CalledProcessError", "run_xclip")
              [] outcome = "exit 0" ->
                    /\ xclip_input' = Append(xclip_input, <<>>)
                    /\ pc' = "done"
                    /\ exit_code' = 0
                    /\ UNCHANGED <<exc, raised_in>>
    /\ UNCHANGED <<argv, config_file, args, profiles_ini, profile, database,
                   tempdir, db_temp_path, toolbar_id, queries, bookmarks,
                   bookmarks_filtered, printed, stdout>>

\* The run on every command line, with few configuration and registry files.
Next ==
    \/ ReadCliArguments(Argvs, FewConfigFiles)
    \/ GetDefaultMozProfile(FewProfilesInis)
    \/ EnterTemporaryDirectory
    \/ CopyDatabase(Databases)
    \/ SelectFolder
    \/ SelectBookmarks
    \/ Filter
    \/ PrintBookmark
    \/ Return
    \/ RunXclip

Spec == Init /\ [][Next]_vars

\* The run on every configuration file, with few databases.
NextArgs ==
    \/ ReadCliArguments(Argvs, ConfigFiles)
    \/ GetDefaultMozProfile(FewProfilesInis)
    \/ EnterTemporaryDirectory
    \/ CopyDatabase(FewDatabases)
    \/ SelectFolder
    \/ SelectBookmarks
    \/ Filter
    \/ PrintBookmark
    \/ Return
    \/ RunXclip

SpecArgs == Init /\ [][NextArgs]_vars

\* The run on every profile registry, with few command lines and databases.
NextProfile ==
    \/ ReadCliArguments(FewArgvs, FewConfigFiles)
    \/ GetDefaultMozProfile(ProfilesInis)
    \/ EnterTemporaryDirectory
    \/ CopyDatabase(FewDatabases)
    \/ SelectFolder
    \/ SelectBookmarks
    \/ Filter
    \/ PrintBookmark
    \/ Return
    \/ RunXclip

SpecProfile == Init /\ [][NextProfile]_vars

(***************************************************************************)
(* Properties.                                                             *)
(***************************************************************************)
\* read_cli_arguments has returned.
ArgsRead == pc # "read_cli_arguments" /\ raised_in # "read_cli_arguments"

\* get_default_moz_profile has been called.
ProfileRead == ArgsRead /\ pc # "get_default_moz_profile"

\* The filtering of main has produced bookmarks_filtered.
Filtered ==
    \/ pc \in {"print", "done"}
    \/ pc = "aborted" /\ raised_in \in {"print", "run_xclip"}

RecognizedStyles == {"plain", "p", "split", "s", "unified", "u"}

Malformed(pattern) == "(" \in {pattern[k] : k \in 1..Len(pattern)}

\* Each text followed by a line terminator, in order.
RECURSIVE JoinLines(_)
JoinLines(texts) ==
    IF texts = <<>> THEN <<>>
    ELSE Head(texts) \o <<"\n">> \o JoinLines(Tail(texts))

\* The blocks of the filtered list in the effective style.
FormattedBlocks ==
    [k \in 1..Len(bookmarks_filtered) |->
        to_org(bookmarks_filtered[k], args.style).text]

\* C1: no run ends in a fatal failure after some formatted output has been
\* written: a run that aborts has written nothing to standard output.
C1_NoPartialSuccess == pc = "aborted" => stdout = <<>>

\* C2 as stated: once the bookmarks are extracted and filtered, a run whose
\* effective style is not recognized ends in the ValueError of to_org with a
\* non-zero exit and no output, whatever the filtered list, the empty list
\* included: it never completes, and a failure after filtering is that one.
C2_UnknownStyleAnyList ==
    (Filtered /\ args.style \notin RecognizedStyles) =>
        /\ pc # "done"
        /\ stdout = <<>>
        /\ xclip_input = <<>>
        /\ pc = "aborted" => exc = "ValueError" /\ exit_code # 0

\* C2 amended: a run whose effective style is not recognized and whose
\* filtered list holds a bookmark ends in the ValueError of to_org, raised by
\* the first print, with exit status 1, before anything is written to standard
\* output or given to the clipboard helper; it never completes.
C2_UnknownStyleNonEmpty ==
    (bookmarks_filtered # <<>> /\ args.style \notin RecognizedStyles) =>
        /\ pc \in {"print", "aborted"}
        /\ printed = 0
        /\ stdout = <<>>
        /\ xclip_input = <<>>
        /\ pc = "aborted" =>
            exc = "ValueError" /\ raised_in = "print" /\ exit_code = 1

C2_Witness ==
    /\ pc = "aborted"
    /\ exc = "ValueError"
    /\ args.style = "weird"
    /\ args.clipboard
    /\ Len(bookmarks_filtered) = 2

\* C3: the blocks go to exactly one destination chosen by args.clipboard: when
\* it is false, a completed run has written every block as a line to standard
\* output and the helper was never started; when it is true, nothing is
\* written to standard output and a completed run has given all blocks, each
\* with a line terminator, to one helper process.
C3_OneDestination ==
    ArgsRead =>
        IF args.clipboard
        THEN /\ stdout = <<>>
             /\ pc = "done" => xclip_input = <<JoinLines(FormattedBlocks)>>
        ELSE /\ xclip_input = <<>>
             /\ pc = "done" => stdout = JoinLines(FormattedBlocks)

\* C4: the scratch directory and the copy in it exist only while
\* get_toolbar_bookmarks is between its copy and its return or raise, on every
\* exit path; the copy is never outside the directory; and the two SELECTs of a
\* call that returned are the only statements the run executes.
InQueryPhase == pc \in {"copy2", "select_id", "select_url_title"}

C4_ScratchScoped ==
    /\ (tempdir \/ db_temp_path) => InQueryPhase
    /\ db_temp_path => tempdir
    /\ pc \in {"select_id", "select_url_title"} => db_temp_path
    /\ Filtered \/ pc = "filter" =>
        queries = <<"SELECT id", "SELECT url, title">>
    /\ Len(queries) <= 2

C4_Witness ==
    /\ pc = "aborted"
    /\ raised_in = "select_id"
    /\ exc = "IndexError"
    /\ queries = <<"SELECT id">>
    /\ ~tempdir
    /\ ~db_temp_path

\* C5: each of the keys clipboard, style, folder and filter of the settings
\* has the command-line value if the flag was supplied, else the value of the
\* configuration file if the file defines the key, else the built-in default;
\* a missing configuration file is not an error, nor is any other file that
\* defines none of the keys: read_cli_arguments always returns the settings.
BuiltIn ==
    [clipboard |-> FALSE, style |-> "unified", folder |-> toolbar,
     filter |-> None]

C5_LayeredSettings ==
    /\ raised_in # "read_cli_arguments"
    /\ pc # "read_cli_arguments" =>
        \A k \in {"clipboard", "style", "folder", "filter"} :
            args[k] = IF k \in DOMAIN argv THEN argv[k]
                      ELSE IF k \in DOMAIN config_file.mapping
                      THEN config_file.mapping[k]
                      ELSE BuiltIn[k]

\* C6: when no row of moz_bookmarks has the requested folder name as its
\* title, the run aborts in the folder lookup with a non-zero exit and no
\* output; and a run that gets past the lookup uses the first of the rows that
\* have the name as their title.
RowsTitled(title) ==
    {k \in 1..Len(database.moz_bookmarks) :
        database.moz_bookmarks[k].title = title}

C6_FolderNotFound ==
    (queries # <<>> /\ "moz_bookmarks" \in database.tables) =>
        IF RowsTitled(args.folder) = {}
        THEN /\ pc = "aborted"
             /\ raised_in = "select_id"
             /\ exit_code # 0
             /\ stdout = <<>>
             /\ xclip_input = <<>>
        ELSE raised_in # "select_id" =>
                toolbar_id = CHOOSE k \in RowsTitled(args.folder) :
                                \A j \in RowsTitled(args.folder) : k <= j

\* The bookmarks of the folder in database row order: one for each row of
\* moz_bookmarks, in the order of the rows, whose parent is the folder and
\* whose fk is the id of a place.
RowIsBookmark(k) ==
    /\ database.moz_bookmarks[k].parent = toolbar_id
    /\ \E p \in 1..Len(database.moz_places) :
            database.moz_places[p].id = database.moz_bookmarks[k].fk

RECURSIVE RowOrder(_)
RowOrder(n) ==
    IF n = 0 THEN <<>>
    ELSE IF RowIsBookmark(n)
    THEN Append(RowOrder(n - 1),
                [url |-> database.moz_places[
                            CHOOSE p \in 1..Len(database.moz_places) :
                                database.moz_places[p].id
                                    = database.moz_bookmarks[n].fk].url,
                 title |-> database.moz_bookmarks[n].title])
    ELSE RowOrder(n - 1)

Fold(c) ==
    CASE c = "A" -> "a" [] c = "E" -> "e" [] OTHER -> c

Occurs(pattern, text) ==
    \E from \in 1..(Len(text) + 1) :
        /\ from + Len(pattern) - 1 <= Len(text)
        /\ \A k \in 1..Len(pattern) :
            \/ pattern[k] = "."
            \/ Fold(pattern[k]) = Fold(text[from + k - 1])

Kept ==
    {k \in 1..Len(bookmarks) :
        \/ Occurs(args.filter, bookmarks[k].url)
        \/ Occurs(args.filter, bookmarks[k].title)}

\* The filter's part of C7: the filtered list is the extracted list when
\* there is no filter; with a pattern it holds, in their order and once each,
\* exactly the extracted bookmarks whose url or stored title has an occurrence
\* of the pattern, letter case ignored.
FilterSubsequence ==
    Filtered =>
        IF args.filter = None
        THEN bookmarks_filtered = bookmarks
        ELSE /\ Len(bookmarks_filtered) = Cardinality(Kept)
             /\ \A j \in 1..Len(bookmarks_filtered) :
                    \E k \in Kept :
                        /\ Cardinality({i \in Kept : i <= k}) = j
                        /\ bookmarks_filtered[j] = bookmarks[k]

\* A filter has kept a part of the extracted list: the second of two
\* bookmarks, whose url alone has the pattern.
PartKept ==
    /\ pc = "done"
    /\ args.filter = <<"b">>
    /\ Len(bookmarks) = 2
    /\ bookmarks[1].title = TitleDecomposed
    /\ bookmarks_filtered = <<bookmarks[2]>>

\* C7: the filtered list is an order-preserved subsequence of the extracted
\* list, which is in database row order: with no filter it is the bookmarks
\* of the folder in the order of their rows; with a pattern it holds, in their
\* order and once each, exactly the extracted bookmarks whose url or stored
\* title has an occurrence of the pattern, letter case ignored.
C7_FilterSubsequence ==
    /\ FilterSubsequence
    /\ Filtered => bookmarks = RowOrder(Len(database.moz_bookmarks))

\* C8: get_default_moz_profile returns the path of the first section whose
\* Name is default-release, and None when no section has that Name or the file
\* cannot be read; on None the run aborts with exit status 1 before any copy,
\* any query and any output.
DefaultReleaseSections ==
    {k \in 1..Len(profiles_ini.sections) :
        /\ profiles_ini.readable
        /\ "Name" \in DOMAIN profiles_ini.sections[k]
        /\ profiles_ini.sections[k]["Name"] = "default-release"}

FirstDefaultRelease ==
    profiles_ini.sections[
        CHOOSE k \in DefaultReleaseSections :
            \A j \in DefaultReleaseSections : k <= j]

C8_ProfileLocator ==
    ProfileRead =>
        IF DefaultReleaseSections = {}
        THEN /\ profile = None
             /\ pc = "aborted"
             /\ raised_in = "get_default_moz_profile"
             /\ exc = "TypeError"
             /\ exit_code = 1
             /\ queries = <<>>
             /\ ~tempdir /\ ~db_temp_path
             /\ stdout = <<>>
             /\ xclip_input = <<>>
        ELSE "path" \in DOMAIN FirstDefaultRelease =>
                /\ profile = FirstDefaultRelease["path"]
                /\ raised_in # "get_default_moz_profile"

C8_Witness ==
    /\ pc = "aborted"
    /\ raised_in = "get_default_moz_profile"
    /\ exc = "TypeError"
    /\ profile = None
    /\ profiles_ini.readable
    /\ Len(profiles_ini.sections) = 2
    /\ "Name" \in DOMAIN profiles_ini.sections[1]
    /\ "Name" \notin DOMAIN profiles_ini.sections[2]

\* C9: what the loop has written is, for each bookmark printed, in order:
\* plain, the url alone; split, "* " and the composed title, then on a second
\* line two spaces and the url in double brackets; unified, "- [[url][composed
\* title]]"; and the bookmarks still hold the url and the title as stored.
Composed(title) ==
    IF title = TitleDecomposed THEN <<"c", "U+00E9">> ELSE title

ExpectedBlock(bm) ==
    CASE args.style = "plain" -> bm.url
      [] args.style = "split" ->
            <<"*", " ">> \o Composed(bm.title) \o <<"\n">>
                \o <<" ", " ", "[", "[">> \o bm.url \o <<"]", "]">>
      [] args.style = "unified" ->
            <<"-", " ", "[", "[">> \o bm.url \o <<"]", "[">>
                \o Composed(bm.title) \o <<"]", "]">>

C9_Rendering ==
    (Filtered /\ args.style \in {"plain", "split", "unified"}) =>
        /\ stdout = JoinLines([k \in 1..printed |->
                                ExpectedBlock(bookmarks_filtered[k])])
        /\ \A k \in 1..Len(bookmarks_filtered) :
            /\ bookmarks_filtered[k].title \in Titles
            /\ bookmarks_filtered[k].url \in Urls

C9_Witness ==
    /\ pc = "done"
    /\ args.style = "split"
    /\ printed = 2
    /\ bookmarks_filtered[2].title = TitleDecomposed

\* C10 as stated: whatever list was extracted, the empty list included, a run
\* with a malformed filter pattern does not get past the filtering.
C10_InvalidPatternAnyList ==
    (ArgsRead /\ args.filter # None /\ Malformed(args.filter)) => ~Filtered

\* C10 amended: with a malformed filter pattern and an extracted list that
\* holds a bookmark, the run ends in re.error, raised by the filtering, with
\* exit status 1, and nothing is written to standard output or given to the
\* clipboard helper.
C10_InvalidPatternNonEmpty ==
    (bookmarks # <<>> /\ args.filter # None /\ Malformed(args.filter)) =>
        /\ pc \in {"filter", "aborted"}
        /\ pc = "aborted" =>
            exc = "re.error" /\ raised_in = "filter" /\ exit_code = 1
        /\ stdout = <<>>
        /\ xclip_input = <<>>

C10_Witness ==
    /\ pc = "aborted"
    /\ exc = "re.error"
    /\ Len(bookmarks) = 2
    /\ args.clipboard

====
